---- MODULE Spec2Model ----
(***************************************************************************)
(* S3StorageProvider (backend/open_webui/storage/s3_storage_provider.py)   *)
(* over the StorageProvider interface (base_storage_provider.py).          *)
(*                                                                         *)
(* Strings are sequences of one-character strings, file contents are       *)
(* sequences of byte values.  The S3 bucket is the function `objects`      *)
(* from the keys present to their bodies.  One call of the provider is in  *)
(* progress at a time (`op`, `pc`); the body of an `async with             *)
(* as_local_file(..)` block runs further calls while the context is open   *)
(* (one such context at a time).  An SDK call is one step: it takes effect *)
(* and returns, or raises and leaves the bucket alone.                     *)
(***************************************************************************)
EXTENDS Integers, Sequences, FiniteSets

VARIABLES
    bucket_prefix,  \* self.bucket_prefix, fixed at construction
    objects,        \* the configured bucket: key -> body
    op,             \* the provider call in progress, or "idle"
    pc,             \* where that call is
    arg,            \* its filename / path argument
    contents,       \* upload_file: what file.read() returned
    target,         \* get_file / as_local_file: the parsed (bucket, key)
    open_clients,   \* SDK clients / resources entered and not yet exited
    requests,       \* SDK requests issued by the current (or last) call
    before,         \* while a call is in progress: the bucket at its start
    result,         \* how the last finished call ended
    uploads,        \* returned path -> what the upload passed to put_object
    ctx,            \* the as_local_file context manager's position
    tempfile        \* the NamedTemporaryFile of as_local_file

vars == <<bucket_prefix, objects, op, pc, arg, contents, target, open_clients,
          requests, before, result, uploads, ctx, tempfile>>

----------------------------------------------------------------------------
(* Bounds and input sets *)

MaxContentLen == 2

Content(n) == [i \in 1..n |-> i]

Files == {Content(n) : n \in 0..MaxContentLen}

bucket_name == <<"b">>

Prefixes == {<<>>, <<"p">>}

Filenames == {<<"a">>, <<"d", "/", "a">>, <<"s", "3", ":", "/", "/", "a">>}

ForeignKey == <<"z">>

Scheme == <<"s", "3", ":", "/", "/">>

Slash == <<"/">>

----------------------------------------------------------------------------
(* Python string operations *)

IsAt(s, sep, i) ==
    /\ i + Len(sep) - 1 <= Len(s)
    /\ SubSeq(s, i, i + Len(sep) - 1) = sep

Find(s, sep) ==
    LET idx == {i \in 1..Len(s) : IsAt(s, sep, i)}
    IN  IF idx = {} THEN 0 ELSE CHOOSE i \in idx : \A j \in idx : i <= j

RECURSIVE Split(_, _, _)
Split(s, sep, maxsplit) ==
    LET i == Find(s, sep)
    IN  IF maxsplit = 0 \/ i = 0
        THEN <<s>>
        ELSE <<SubSeq(s, 1, i - 1)>>
                 \o Split(SubSeq(s, i + Len(sep), Len(s)), sep, maxsplit - 1)

StartsWith(s, p) == Len(p) <= Len(s) /\ SubSeq(s, 1, Len(p)) = p

----------------------------------------------------------------------------
(* The provider's pure helpers *)

UploadKeyNoPrefix(prefix, filename) == filename

UploadKey(prefix, filename) == prefix \o Slash \o filename

UploadPath(prefix, filename) ==
    Scheme \o bucket_name \o Slash \o prefix \o Slash \o filename

_bucket_name_and_key(s3_path) ==
    LET parts == Split(s3_path, Scheme, -1)
    IN  IF Len(parts) < 2
        THEN [exc |-> "IndexError", bucket |-> <<>>, key |-> <<>>]
        ELSE LET bk == Split(parts[2], Slash, 1)
             IN  IF Len(bk) # 2
                 THEN [exc |-> "ValueError", bucket |-> <<>>, key |-> <<>>]
                 ELSE [exc |-> "none", bucket |-> bk[1], key |-> bk[2]]

AttributeNames ==
    {"session", "bucket_name", "bucket_prefix", "_get_client", "upload_file",
     "get_file", "as_local_file", "delete_file", "delete_all_files",
     "_bucket_name_and_key"}

HasAttr(name) == name \in AttributeNames

RECURSIVE iter_chunks(_, _)
iter_chunks(body, size) ==
    IF Len(body) = 0 THEN <<>>
    ELSE IF Len(body) <= size THEN <<body>>
    ELSE <<SubSeq(body, 1, size)>>
             \o iter_chunks(SubSeq(body, size + 1, Len(body)), size)

RECURSIVE Concat(_)
Concat(chunks) ==
    IF chunks = <<>> THEN <<>> ELSE Head(chunks) \o Concat(Tail(chunks))

----------------------------------------------------------------------------
(* The S3 service behind the SDK calls *)

MapPut(m, key, v) ==
    [k \in DOMAIN m \cup {key} |-> IF k = key THEN v ELSE m[k]]

put_object(o, key, body) == MapPut(o, key, body)

HasObject(o, bucket, key) == bucket = bucket_name /\ key \in DOMAIN o

delete_object(o, key) == [k \in DOMAIN o \ {key} |-> o[k]]

filter_delete(o, prefix) ==
    [k \in {x \in DOMAIN o : ~StartsWith(x, prefix)} |-> o[k]]

NoResult ==
    [op |-> "none", status |-> "none", arg |-> <<>>, path |-> <<>>,
     chunks |-> <<>>, failed |-> FALSE, unchanged |-> TRUE]

Finished(o, status, a, path, chunks, failed) ==
    [op |-> o, status |-> status, arg |-> a, path |-> path,
     chunks |-> chunks, failed |-> failed, unchanged |-> TRUE]

NoTarget == [bucket |-> <<>>, key |-> <<>>]

NoTemp == [exists |-> FALSE, data |-> <<>>]

PathInputs(prefix) ==
    {UploadPath(prefix, f) : f \in Filenames}
        \cup {UploadKey(prefix, <<"a">>)}

----------------------------------------------------------------------------
Init ==
    /\ bucket_prefix \in Prefixes
    /\ objects = put_object(<<>>, ForeignKey, Content(1))
    /\ op = "idle"
    /\ pc = "none"
    /\ arg = <<>>
    /\ contents = <<>>
    /\ target = NoTarget
    /\ open_clients = 0
    /\ requests = 0
    /\ before = <<>>
    /\ result = NoResult
    /\ uploads = <<>>
    /\ ctx = "none"
    /\ tempfile = NoTemp

----------------------------------------------------------------------------
(* The except clauses: every Exception leaves as RuntimeError *)

Reraise(exc) == exc

upload_file_except(exc) == "RuntimeError"

get_file_except(exc) == "RuntimeError"

as_local_file_except(exc) == "RuntimeError"

delete_file_except(exc) == "RuntimeError"

delete_all_files_except(exc) == "RuntimeError"

Idle == op = "idle"

(* A call that gets as far as entering its SDK client. *)
StartCall(o, p, a) ==
    /\ op' = o
    /\ pc' = p
    /\ arg' = a
    /\ requests' = 0
    /\ before' = objects
    /\ open_clients' = open_clients + 1
    /\ result' = NoResult
    /\ UNCHANGED objects

(* A call that ends before it enters an SDK client. *)
EarlyExit(r) ==
    /\ result' = r
    /\ requests' = 0
    /\ UNCHANGED <<op, pc, arg, contents, target, open_clients, before,
                   objects>>

(* The SDK request has resolved: the async with block is left (the client *)
(* is closed) and the call returns or raises, leaving the bucket as `o`.  *)
EndCall(r, o) ==
    /\ op' = "idle"
    /\ pc' = "none"
    /\ arg' = <<>>
    /\ contents' = <<>>
    /\ target' = NoTarget
    /\ requests' = requests + 1
    /\ open_clients' = open_clients - 1
    /\ objects' = o
    /\ before' = <<>>
    /\ result' = [r EXCEPT !.unchanged = (o = before)]

----------------------------------------------------------------------------
(* upload_file *)

UploadFile(file, filename) ==
    /\ Idle
    /\ IF Len(file) = 0
       THEN EarlyExit(Finished("upload_file", "ValueError", filename,
                               <<>>, <<>>, FALSE))
       ELSE /\ StartCall("upload_file", "put_object", filename)
            /\ contents' = file
            /\ UNCHANGED target
    /\ UNCHANGED <<bucket_prefix, uploads, ctx, tempfile>>

UploadFilePut ==
    /\ op = "upload_file" /\ pc = "put_object"
    /\ \E ok \in BOOLEAN :
         LET key  == UploadKey(bucket_prefix, arg)
             path == UploadPath(bucket_prefix, arg)
         IN  IF ok
             THEN /\ uploads' = MapPut(uploads, path,
                                   [Bucket |-> bucket_name, Key |-> key,
                                    Body |-> contents])
                  /\ EndCall(Finished("upload_file", "ok", arg, path,
                                      <<>>, FALSE),
                             put_object(objects, key, contents))
             ELSE /\ UNCHANGED uploads
                  /\ EndCall(Finished("upload_file",
                                      upload_file_except("ClientError"),
                                      arg, <<>>, <<>>, TRUE),
                             objects)
    /\ UNCHANGED <<bucket_prefix, ctx, tempfile>>

----------------------------------------------------------------------------
(* get_file *)

GetFile(path) ==
    /\ Idle
    /\ LET bk == _bucket_name_and_key(path)
       IN  IF bk.exc # "none"
           THEN EarlyExit(Finished("get_file", get_file_except(bk.exc),
                                   path, <<>>, <<>>, FALSE))
           ELSE /\ StartCall("get_file", "get_object", path)
                /\ target' = [bucket |-> bk.bucket, key |-> bk.key]
                /\ UNCHANGED contents
    /\ UNCHANGED <<bucket_prefix, uploads, ctx, tempfile>>

GetFileGetObject ==
    /\ op = "get_file" /\ pc = "get_object"
    /\ \E ok \in BOOLEAN :
         IF ~(ok /\ HasObject(objects, target.bucket, target.key))
         THEN EndCall(Finished("get_file", get_file_except("ClientError"),
                               arg, <<>>, <<>>, TRUE),
                      objects)
         ELSE IF ~HasAttr("STREAMING_CHUNK_SIZE")
         THEN EndCall(Finished("get_file",
                               get_file_except("AttributeError"),
                               arg, <<>>, <<>>, FALSE),
                      objects)
         ELSE \E size \in 1..MaxContentLen :
                EndCall(Finished("get_file", "ok", arg, <<>>,
                                 iter_chunks(objects[target.key], size),
                                 FALSE),
                        objects)
    /\ UNCHANGED <<bucket_prefix, uploads, ctx, tempfile>>

----------------------------------------------------------------------------
(* as_local_file *)

AsLocalFile(path) ==
    /\ Idle
    /\ ctx # "body"
    /\ LET bk == _bucket_name_and_key(path)
       IN  IF bk.exc # "none"
           THEN /\ EarlyExit(Finished("as_local_file",
                                      as_local_file_except(bk.exc),
                                      path, <<>>, <<>>, FALSE))
                /\ ctx' = "none"
                /\ UNCHANGED tempfile
           ELSE /\ StartCall("as_local_file", "download_fileobj", path)
                /\ target' = [bucket |-> bk.bucket, key |-> bk.key]
                /\ tempfile' = [exists |-> TRUE, data |-> <<>>]
                /\ ctx' = "entering"
                /\ UNCHANGED contents
    /\ UNCHANGED <<bucket_prefix, uploads>>

AsLocalFileDownload ==
    /\ op = "as_local_file" /\ pc = "download_fileobj"
    /\ \E ok \in BOOLEAN :
         IF ~(ok /\ HasObject(objects, target.bucket, target.key))
         THEN /\ tempfile' = NoTemp
              /\ ctx' = "none"
              /\ EndCall(Finished("as_local_file",
                                  as_local_file_except("ClientError"),
                                  arg, <<>>, <<>>, TRUE),
                         objects)
         ELSE /\ tempfile' = [exists |-> TRUE, data |-> objects[target.key]]
              /\ ctx' = "body"
              /\ EndCall(Finished("as_local_file", "ok", arg, <<>>, <<>>,
                                  FALSE),
                         objects)
    /\ UNCHANGED <<bucket_prefix, uploads>>

AsLocalFileExitKeepTemp(raised) ==
    /\ Idle
    /\ ctx = "body"
    /\ ctx' = "exited"
    /\ result' = Finished("as_local_file",
                          IF raised THEN as_local_file_except("BodyError")
                                    ELSE "ok",
                          <<>>, <<>>, <<>>, FALSE)
    /\ UNCHANGED <<bucket_prefix, objects, op, pc, arg, contents, target,
                   open_clients, requests, before, uploads, tempfile>>

AsLocalFileExit(raised) ==
    /\ Idle
    /\ ctx = "body"
    /\ tempfile' = NoTemp
    /\ ctx' = "exited"
    /\ result' = Finished("as_local_file",
                          IF raised THEN as_local_file_except("BodyError")
                                    ELSE "ok",
                          <<>>, <<>>, <<>>, FALSE)
    /\ UNCHANGED <<bucket_prefix, objects, op, pc, arg, contents, target,
                   open_clients, requests, before, uploads>>

----------------------------------------------------------------------------
(* delete_file *)

DeleteFile(path) ==
    /\ Idle
    /\ StartCall("delete_file", "delete_object", path)
    /\ UNCHANGED <<bucket_prefix, contents, target, uploads, ctx, tempfile>>

DeleteFileNoAsyncWith ==
    /\ op = "delete_file" /\ pc = "delete_object"
    /\ \E ok \in BOOLEAN :
         /\ op' = "idle"
         /\ pc' = "none"
         /\ arg' = <<>>
         /\ requests' = requests + 1
         /\ before' = <<>>
         /\ IF ok
            THEN /\ objects' = delete_object(objects, arg)
                 /\ open_clients' = open_clients - 1
                 /\ result' = [Finished("delete_file", "ok", arg, <<>>, <<>>,
                                        FALSE)
                                  EXCEPT !.unchanged = (objects' = before)]
            ELSE /\ UNCHANGED <<objects, open_clients>>
                 /\ result' = Finished("delete_file",
                                       delete_file_except("ClientError"),
                                       arg, <<>>, <<>>, TRUE)
    /\ UNCHANGED <<bucket_prefix, contents, target, uploads, ctx, tempfile>>

DeleteFileDeleteObject ==
    /\ op = "delete_file" /\ pc = "delete_object"
    /\ \E ok \in BOOLEAN :
         IF ok
         THEN EndCall(Finished("delete_file", "ok", arg, <<>>, <<>>, FALSE),
                      delete_object(objects, arg))
         ELSE EndCall(Finished("delete_file",
                               delete_file_except("ClientError"),
                               arg, <<>>, <<>>, TRUE),
                      objects)
    /\ UNCHANGED <<bucket_prefix, uploads, ctx, tempfile>>

----------------------------------------------------------------------------
(* delete_all_files *)

DeleteAllFiles ==
    /\ Idle
    /\ StartCall("delete_all_files", "delete", <<>>)
    /\ UNCHANGED <<bucket_prefix, contents, target, uploads, ctx, tempfile>>

DeleteAllFilesDelete ==
    /\ op = "delete_all_files" /\ pc = "delete"
    /\ \E ok \in BOOLEAN :
         IF ok
         THEN EndCall(Finished("delete_all_files", "ok", <<>>, <<>>, <<>>,
                               FALSE),
                      filter_delete(objects, bucket_prefix))
         ELSE EndCall(Finished("delete_all_files",
                               delete_all_files_except("ClientError"),
                               <<>>, <<>>, <<>>, TRUE),
                      objects)
    /\ UNCHANGED <<bucket_prefix, uploads, ctx, tempfile>>

----------------------------------------------------------------------------
Next ==
    \/ \E file \in Files, filename \in Filenames : UploadFile(file, filename)
    \/ UploadFilePut
    \/ \E path \in PathInputs(bucket_prefix) : GetFile(path)
    \/ GetFileGetObject
    \/ \E path \in PathInputs(bucket_prefix) : AsLocalFile(path)
    \/ AsLocalFileDownload
    \/ \E raised \in BOOLEAN : AsLocalFileExit(raised)
    \/ \E path \in PathInputs(bucket_prefix) : DeleteFile(path)
    \/ DeleteFileDeleteObject
    \/ DeleteAllFiles
    \/ DeleteAllFilesDelete

Spec == Init /\ [][Next]_vars

----------------------------------------------------------------------------
(* Properties *)

ProviderOps == {"upload_file", "get_file", "delete_file", "delete_all_files"}

\* C1: after upload_file succeeded and returned a path, get_file(path) on the
\* object that upload stored (still in the bucket, the SDK request itself not
\* failing) ends without error and its chunks concatenate to the bytes most
\* recently uploaded under that filename.
C1_GetFileYieldsLatestUpload ==
    ( /\ Idle
      /\ result.op = "get_file"
      /\ ~result.failed
      /\ result.arg \in DOMAIN uploads
      /\ HasObject(objects, uploads[result.arg].Bucket,
                   uploads[result.arg].Key)
      /\ objects[uploads[result.arg].Key] = uploads[result.arg].Body )
    => ( /\ result.status = "ok"
         /\ Concat(result.chunks) = uploads[result.arg].Body )

\* C2: after delete_file(p) returned without error, for p a path returned by
\* a successful upload_file, the object that upload stored is no longer in
\* the bucket.
C2_DeleteFileRemovesUploadedObject ==
    ( /\ Idle
      /\ result.op = "delete_file"
      /\ result.status = "ok"
      /\ result.arg \in DOMAIN uploads )
    => uploads[result.arg].Key \notin DOMAIN objects

\* C3: once delete_all_files has returned without error, no object stored by
\* any earlier successful upload_file remains in the bucket, whatever the
\* bucket_prefix (the empty one included).
C3_DeleteAllFilesRemovesUploads ==
    ( /\ Idle
      /\ result.op = "delete_all_files"
      /\ result.status = "ok" )
    => \A p \in DOMAIN uploads : uploads[p].Key \notin DOMAIN objects

C3_Witness ==
    /\ Idle
    /\ result.op = "delete_all_files"
    /\ result.status = "ok"
    /\ ~result.unchanged
    /\ bucket_prefix = <<>>
    /\ Cardinality(DOMAIN uploads) >= 2

\* C4: the temporary file of as_local_file exists for as long as the caller's
\* context body runs, and no longer exists once the context has exited,
\* whether the body returned or raised.
C4_TempFileLivesExactlyForTheBody ==
    /\ ctx = "body" => tempfile.exists
    /\ ctx = "exited" => ~tempfile.exists

C4_Witness ==
    /\ ctx = "exited"
    /\ result.op = "as_local_file"
    /\ result.status = "RuntimeError"
    /\ ~tempfile.exists

\* C5: the path upload_file returns parses, by _bucket_name_and_key, to
\* exactly the Bucket and Key the upload passed to put_object.
C5_ReturnedPathIdentifiesObject ==
    ( /\ Idle
      /\ result.op = "upload_file"
      /\ result.status = "ok" )
    => LET bk == _bucket_name_and_key(result.path)
       IN  /\ bk.exc = "none"
           /\ bk.bucket = uploads[result.path].Bucket
           /\ bk.key = uploads[result.path].Key

C7_NoClientOutlivesItsCall ==
    Idle => open_clients = 0

C7_Witness ==
    /\ Idle
    /\ result.op = "delete_file"
    /\ result.failed
    /\ requests = 1
    /\ open_clients = 0

====
